---- MODULE Spec2Model ----
(***************************************************************************)
(* proxy_skinning_util.py: extract_faces and copy_proxy_to_skin, and the   *)
(* _undo decorator, as sequences of calls into the host scene (maya.cmds). *)
(*                                                                         *)
(* The host scene is the variable `scene`; every host call of the source   *)
(* is an operator on it.  Host conventions used by the operators:          *)
(*   - a flag that takes no argument is set by passing True and is absent  *)
(*     when passed False;                                                  *)
(*   - an empty or None object list means "use the current selection";     *)
(*   - duplicate leaves the new object selected;                           *)
(*   - a command given an object that does not exist raises.               *)
(* The skeleton pose is one value for the whole skeleton of the            *)
(* influences; faces are identified by their index in the original mesh.   *)
(* A node name is the tuple of its ':'-separated parts.                    *)
(***************************************************************************)
EXTENDS Integers, Sequences, FiniteSets, TLC

\* Number of faces of the meshes of the scene the calls are made on.
NFaces == 3

Faces == 1..NFaces

\* The meshes of the scene on entry: a skinned proxy, a namespaced hires
\* mesh (skinned or not) and a mesh without skin cluster.
M == <<"body">>
P == <<"rig", "hires">>
Q == <<"prop">>
\* The name the host gives the duplicate of a mesh, and the caller's new_name.
DupName(mesh) ==
    CASE mesh = <<"body">> -> <<"body1">>
      [] mesh = <<"rig", "hires">> -> <<"rig", "hires1">>
      [] OTHER -> <<"prop1">>
NewName == "extracted"

Poses == {"bind", "posed"}
Joints == {"j1", "j2"}

VARIABLES
    scene,        \* the host scene graph
    openChunks,   \* number of open undo chunks of the host
    chunkBase,    \* length of the undo queue when the innermost chunk was opened
    undoQueue,    \* the host's undo list: the scene before each undoable command
    pc,           \* position in the running call
    op,           \* the public operation called
    outcome,      \* "running", "returned" or "raised"
    raisedAt,     \* source line of the raise, 0 when none
    result,       \* the value returned to the caller
    ef,           \* frame of extract_faces
    cps,          \* frame of copy_proxy_to_skin
    caller,       \* who called copy_proxy_to_skin: "top" or "extract_faces"
    entry,        \* scene and open chunks at the call
    log           \* scene-changing host calls issued so far

vars == <<scene, openChunks, chunkBase, undoQueue, pc, op, outcome, raisedAt,
          result, ef, cps, caller, entry, log>>

----------------------------------------------------------------------------
\* Helpers

RECURSIVE AscSeq(_)
AscSeq(S) ==
    IF S = {} THEN <<>>
    ELSE LET m == CHOOSE x \in S : \A y \in S : x <= y
         IN  <<m>> \o AscSeq(S \ {m})

Range(s) == {s[i] : i \in 1..Len(s)}

\* A selectable item: a mesh object (f = 0) or one face of a mesh.
Obj(mesh) == <<mesh, 0>>
Face(mesh, f) == <<mesh, f>>
IsFace(item) == item[2] > 0
FaceItems(mesh, S) == [i \in 1..Cardinality(S) |-> Face(mesh, AscSeq(S)[i])]
FacesOf(items, mesh) == {it[2] : it \in {x \in Range(items) : x[1] = mesh /\ IsFace(x)}}

Meshes(s) == DOMAIN s.faces
Exists(s, item) ==
    /\ item[1] \in Meshes(s)
    /\ IsFace(item) => item[2] \in s.faces[item[1]]

----------------------------------------------------------------------------
\* The host commands the source issues, as functions of the scene.

Restrict(f, S) == [x \in S |-> f[x]]

\* An empty (or None) object list makes a host command work on the selection.
Targets(s, items) == IF items = <<>> THEN s.selection ELSE items

\* cmds.ls(sl=True)
Ls_sl(s) == s.selection

\* cmds.filterExpand(items, ex=True, sm=34): the polygon faces among the
\* items, one entry per face; the empty sequence stands for None.
FilterExpand(s, items) ==
    SelectSeq(Targets(s, items), LAMBDA it : IsFace(it) /\ Exists(s, it))

\* cmds.listRelatives(items, p=1): the parent of each item that has one.  The
\* parent of a face is the shape (f = -1), the parent of a shape is the mesh
\* transform, and the transforms of the scene are parented to the world.
ParentOf(it) == IF it[2] > 0 THEN <<it[1], -1>> ELSE Obj(it[1])
ListRelatives_p(s, items) ==
    LET t == SelectSeq(Targets(s, items), LAMBDA it : it[2] # 0)
    IN  [i \in 1..Len(t) |-> ParentOf(t[i])]

\* cmds.select(mesh + '.f[:]', tgl=1): every face of the mesh changes side; the
\* rest of the selection stays.
SelectToggleFaces(s, mesh) ==
    LET kept == SelectSeq(s.selection, LAMBDA it : ~(it[1] = mesh /\ IsFace(it)))
        added == s.faces[mesh] \ FacesOf(s.selection, mesh)
    IN  [s EXCEPT !.selection = kept \o FaceItems(mesh, added)]

\* cmds.select(mesh, r=1) and cmds.select(cl=1)
SelectReplace(s, mesh) == [s EXCEPT !.selection = <<Obj(mesh)>>]
SelectClear(s) == [s EXCEPT !.selection = <<>>]

\* cmds.ls(cmds.listHistory(mesh), type='skinCluster')
SkinClustersOf(s, mesh) == s.skinOf[mesh]

\* cmds.skinCluster(skin, q=True, wi=True) and (..., q=True, inf=True)
WeightedInfluences(s, skin) == s.skins[skin].wi
Influences(s, skin) == s.skins[skin].inf

\* cmds.dagPose(influences, save=True, name=name): a pose node holding the
\* current pose.
DagPoseSave(s, name) ==
    [s EXCEPT !.poseNodes = name :> [pose |-> s.pose, bindPose |-> FALSE] @@ @]

\* cmds.dagPose(influences, q=True, bindPose=True): the bind pose nodes of the
\* influences; the empty sequence stands for None.
DagPoseBindPose(s) ==
    IF "bindPose1" \in DOMAIN s.poseNodes THEN <<"bindPose1">> ELSE <<>>

\* cmds.dagPose(name, restore=True)
DagPoseRestore(s, name) == [s EXCEPT !.pose = s.poseNodes[name].pose]

\* A saved pose node that is left in the scene.
DeletePose_Forgotten(s, name) == s

\* cmds.delete(pose node)
DeletePose(s, name) ==
    [s EXCEPT !.poseNodes = Restrict(@, DOMAIN @ \ {name})]

\* cmds.duplicate(mesh)[0]: a copy of the shape as it stands, without the
\* deformers of the original; the copy becomes the selection.
Duplicate(s, mesh) ==
    LET new == DupName(mesh)
    IN  [s EXCEPT !.faces = new :> s.faces[mesh] @@ @,
                  !.skinOf = new :> <<>> @@ @,
                  !.selection = <<Obj(new)>>]

\* cmds.rename(old, new)
RenameItem(it, old, new) == IF it[1] = old THEN <<new, it[2]>> ELSE it
Rename(s, old, new) ==
    LET keep == Meshes(s) \ {old}
    IN  [s EXCEPT !.faces = new :> s.faces[old] @@ Restrict(@, keep),
                  !.skinOf = new :> s.skinOf[old] @@ Restrict(@, keep),
                  !.selection = [i \in 1..Len(@) |-> RenameItem(@[i], old, new)],
                  !.history = IF old \in @ THEN (@ \ {old}) \cup {new} ELSE @]

\* cmds.delete(items): the faces named are removed from their meshes (which
\* gain construction history), the objects named are removed with their skin
\* clusters; what is deleted leaves the selection.
CanDelete(s, items) == \A it \in Range(Targets(s, items)) : Exists(s, it)
Delete(s, items) ==
    LET t == Range(Targets(s, items))
        gone == {it[1] : it \in {x \in t : ~IsFace(x)}}
        keep == Meshes(s) \ gone
        cut == {it[1] : it \in {x \in t : IsFace(x)}} \cap keep
        goneSkins == UNION {Range(s.skinOf[m]) : m \in gone}
    IN  [s EXCEPT !.faces = [m \in keep |-> s.faces[m] \ FacesOf(Targets(s, items), m)],
                  !.skinOf = Restrict(@, keep),
                  !.skins = Restrict(@, DOMAIN @ \ goneSkins),
                  !.history = (@ \cap keep) \cup cut,
                  !.selection = SelectSeq(@, LAMBDA it : it[1] \in keep /\ it \notin t)]

\* cmds.skinCluster(influences, mesh, toSelectedBones=True, rui=False, n=name)
SkinClusterCreate(s, influences, mesh, name) ==
    [s EXCEPT !.skins = name :> [inf |-> influences, wi |-> influences,
                                  w |-> [from |-> "default", pose |-> s.pose]] @@ @,
              !.skinOf = [@ EXCEPT ![mesh] = <<name>> \o @]]

\* cmds.copySkinWeights(sourceSkin=src, destinationSkin=dst, ...): the
\* weights of src, associated in the pose the skeleton is in, become dst's.
CopySkinWeights(s, src, dst) ==
    [s EXCEPT !.skins = [@ EXCEPT ![dst] = [inf |-> @.inf, wi |-> s.skins[src].wi,
                                             w |-> [from |-> s.skins[src].w.from,
                                                    pose |-> s.pose]]]]

\* cmds.bakePartialHistory(mesh, prePostDeformers=True) and
\* cmds.delete(mesh, ch=1)
BakePartialHistory(s, mesh) == [s EXCEPT !.history = @ \ {mesh}]
DeleteHistory(s, mesh) == [s EXCEPT !.history = @ \ {mesh}]

\* cmds.undoInfo(ock=flag) and cmds.undoInfo(cck=flag): the number of open
\* chunks after the call; a flag passed False is absent.
UndoInfoOpenChunk(n, flag) == IF flag THEN n + 1 ELSE n
UndoInfoCloseChunk(n, flag) == IF flag /\ n > 0 THEN n - 1 ELSE n

\* cmds.undo(): the most recent entry of the undo list is undone.  With a
\* chunk left open the host does not fix what that entry is: the last
\* command issued ("last"), everything issued since the chunk was opened
\* ("chunk"), or nothing while the chunk stays open ("none").
UndoModes == {"last", "chunk", "none"}
Undo(s, queue, base, mode) ==
    CASE mode = "last" /\ queue # <<>> ->
            [scene |-> queue[Len(queue)], queue |-> SubSeq(queue, 1, Len(queue) - 1)]
      [] mode = "chunk" /\ Len(queue) > base ->
            [scene |-> queue[base + 1], queue |-> SubSeq(queue, 1, base)]
      [] OTHER -> [scene |-> s, queue |-> queue]

----------------------------------------------------------------------------
\* The scenes the calls are made on.

S1 == <<"skinCluster1">>
S2 == <<"skinCluster2">>
Authored(skin) ==
    [inf |-> Joints, wi |-> {"j1"}, w |-> [from |-> skin[1], pose |-> "bind"]]

InitialScene(sel, p, hasBindPose, dstSkinned) ==
    [faces |-> (M :> Faces @@ P :> Faces @@ Q :> {1}),
     skinOf |-> (M :> <<S1>> @@ P :> (IF dstSkinned THEN <<S2>> ELSE <<>>) @@ Q :> <<>>),
     skins |-> IF dstSkinned THEN (S1 :> Authored(S1) @@ S2 :> Authored(S2))
               ELSE (S1 :> Authored(S1)),
     pose |-> p,
     poseNodes |-> IF hasBindPose
                   THEN ("bindPose1" :> [pose |-> "bind", bindPose |-> TRUE])
                   ELSE <<>>,
     selection |-> sel,
     history |-> {}]

FaceSelections == {FaceItems(M, S) : S \in SUBSET Faces \ {{}}}

\* What the artist has selected before the call (module docstring): nothing,
\* faces of one mesh, one mesh, two meshes in either order, three meshes.
Selections ==
    FaceSelections \cup
    {<<>>, <<Face(Q, 1)>>, <<Obj(M)>>, <<Obj(M), Obj(P)>>, <<Obj(P), Obj(M)>>,
     <<Obj(Q), Obj(P)>>, <<Obj(M), Obj(P), Obj(Q)>>}

NoFrameEF ==
    [face_list |-> <<>>, new_name |-> "", keep_original |-> FALSE,
     copy_skinning |-> FALSE, selected_faces |-> <<>>, cur_mesh |-> <<>>,
     faces_to_extract |-> <<>>, influence_list |-> {}, cur_pose |-> "",
     bind_pose |-> <<>>, new_mesh |-> <<>>]

NoFrameCPS ==
    [arg_src |-> <<>>, arg_dst |-> <<>>,
     src_mesh |-> <<>>, dst_mesh |-> <<>>, src_skin |-> <<>>, dst_skin |-> <<>>,
     dst_skin_on_entry |-> <<>>, influence_list |-> {}, cur_pose |-> "",
     bind_pose |-> <<>>, returned |-> FALSE]

\* The scene as the artist left it: the selection, when there is one, is the
\* most recent entry of the undo list.
Init ==
    /\ \E sel \in Selections, p \in Poses, hb \in BOOLEAN, ds \in BOOLEAN :
          /\ scene = InitialScene(sel, p, hb, ds)
          /\ undoQueue = IF sel = <<>> THEN <<>>
                         ELSE <<InitialScene(<<>>, p, hb, ds)>>
    /\ openChunks = 0
    /\ chunkBase = 0
    /\ pc = "idle"
    /\ op = "none"
    /\ outcome = "none"
    /\ raisedAt = 0
    /\ result = <<>>
    /\ ef = NoFrameEF
    /\ cps = NoFrameCPS
    /\ caller = "none"
    /\ entry = [scene |-> scene, openChunks |-> 0]
    /\ log = <<>>

----------------------------------------------------------------------------
\* Steps shared by the operations.

\* A scene-changing host call of function fn: the scene before it joins the
\* undo list.
Issue(fn, cmd, new) ==
    /\ scene' = new
    /\ undoQueue' = Append(undoQueue, scene)
    /\ log' = Append(log, [fn |-> fn, cmd |-> cmd, pose |-> scene.pose])

NoHostCall == UNCHANGED <<scene, undoQueue, log>>

\* An exception leaves the function; under the decorator it runs the finally
\* block (line 43), otherwise it reaches the caller.
Raise(line) ==
    /\ outcome' = "raised"
    /\ raisedAt' = line
    /\ pc' = IF op = "extract_faces" THEN "undo_44" ELSE "done"
----------------------------------------------------------------------------
\* _undo (lines 31-47)

\* The flags the decorator passes to cmds.undoInfo (lines 41 and 44).
OpenChunkFlag == TRUE
CloseChunkFlag == FALSE

\* extract_faces(face_list, new_name, keep_original, copy_skinning) is called:
\* the decorated function is entered (line 39).
Call_extract_faces(face_list, new_name, keep_original, copy_skinning) ==
    /\ pc = "idle"
    /\ pc' = "undo_41"
    /\ op' = "extract_faces"
    /\ outcome' = "running"
    /\ ef' = [NoFrameEF EXCEPT !.face_list = face_list, !.new_name = new_name,
                               !.keep_original = keep_original,
                               !.copy_skinning = copy_skinning]
    /\ entry' = [scene |-> scene, openChunks |-> openChunks]
    /\ UNCHANGED <<scene, openChunks, chunkBase, undoQueue, raisedAt, result,
                   cps, caller, log>>

\* line 41: cmds.undoInfo(ock=True)
Undo_openChunk ==
    /\ pc = "undo_41"
    /\ openChunks' = UndoInfoOpenChunk(openChunks, OpenChunkFlag)
    /\ chunkBase' = Len(undoQueue)
    /\ pc' = "ef_61"
    /\ UNCHANGED <<scene, undoQueue, op, outcome, raisedAt, result, ef, cps,
                   caller, entry, log>>

\* line 44, in the finally block: cmds.undoInfo(cck=False)
Undo_closeChunk ==
    /\ pc = "undo_44"
    /\ openChunks' = UndoInfoCloseChunk(openChunks, CloseChunkFlag)
    /\ pc' = "undo_45"
    /\ UNCHANGED <<scene, chunkBase, undoQueue, op, outcome, raisedAt, result,
                   ef, cps, caller, entry, log>>

\* line 45, in the finally block: cmds.undo(); then the return value or the
\* exception reaches the caller.
Undo_undo ==
    /\ pc = "undo_45"
    /\ \E mode \in UndoModes :
          LET u == Undo(scene, undoQueue, chunkBase, mode)
          IN  /\ scene' = u.scene
              /\ undoQueue' = u.queue
              /\ log' = Append(log, [fn |-> "_undo", cmd |-> "undo", pose |-> scene.pose])
    /\ pc' = "done"
    /\ UNCHANGED <<openChunks, chunkBase, op, outcome, raisedAt, result, ef, cps,
                   caller, entry>>

----------------------------------------------------------------------------
\* extract_faces (lines 50-113)

efFrame == <<openChunks, chunkBase, op, result, cps, caller, entry>>

\* lines 61-64
EF_selected_faces ==
    /\ pc = "ef_61"
    /\ ef' = [ef EXCEPT !.selected_faces =
                 IF ef.face_list = <<>> THEN Ls_sl(scene) ELSE ef.face_list]
    /\ pc' = "ef_66"
    /\ NoHostCall
    /\ UNCHANGED <<efFrame, outcome, raisedAt>>

\* line 66: `not bool(filterExpand(...)) or []`; the empty list is false.
NoFacesSelected(s, selected_faces) ==
    (~(FilterExpand(s, selected_faces) # <<>>)) \/ FALSE

\* lines 66-67
EF_filter ==
    /\ pc = "ef_66"
    /\ IF NoFacesSelected(scene, ef.selected_faces)
       THEN Raise(67)
       ELSE pc' = "ef_69" /\ UNCHANGED <<outcome, raisedAt>>
    /\ NoHostCall
    /\ UNCHANGED <<efFrame, ef>>

\* lines 69-70: the mesh is looked up from the current selection.
CurMeshParents(s) == ListRelatives_p(s, ListRelatives_p(s, <<>>))

EF_cur_mesh ==
    /\ pc = "ef_69"
    /\ IF CurMeshParents(scene) = <<>>
       THEN Raise(70) /\ UNCHANGED ef
       ELSE /\ ef' = [ef EXCEPT !.cur_mesh = CurMeshParents(scene)[1][1]]
            /\ pc' = "ef_72"
            /\ UNCHANGED <<outcome, raisedAt>>
    /\ NoHostCall
    /\ UNCHANGED efFrame

\* lines 72-73
EF_toggle ==
    /\ pc = "ef_72"
    /\ Issue("extract_faces", "select_tgl", SelectToggleFaces(scene, ef.cur_mesh))
    /\ ef' = [ef EXCEPT !.faces_to_extract = Ls_sl(SelectToggleFaces(scene, ef.cur_mesh))]
    /\ pc' = "ef_76"
    /\ UNCHANGED <<efFrame, outcome, raisedAt>>

\* lines 76-77: the skinCluster query raises on a mesh without skin cluster.
EF_save_pose ==
    /\ pc = "ef_76"
    /\ IF SkinClustersOf(scene, ef.cur_mesh) = <<>>
       THEN Raise(76) /\ NoHostCall /\ UNCHANGED ef
       ELSE /\ ef' = [ef EXCEPT
                  !.influence_list =
                      WeightedInfluences(scene, SkinClustersOf(scene, ef.cur_mesh)[1]),
                  !.cur_pose = "extractInPose"]
            /\ Issue("extract_faces", "dagPose_save", DagPoseSave(scene, "extractInPose"))
            /\ pc' = "ef_80"
            /\ UNCHANGED <<outcome, raisedAt>>
    /\ UNCHANGED efFrame

\* lines 80-81: restoring without a bind pose (None) raises.
EF_bind_pose ==
    /\ pc = "ef_80"
    /\ IF DagPoseBindPose(scene) = <<>>
       THEN Raise(81) /\ NoHostCall /\ UNCHANGED ef
       ELSE /\ ef' = [ef EXCEPT !.bind_pose = DagPoseBindPose(scene)]
            /\ Issue("extract_faces", "dagPose_restore_bind",
                     DagPoseRestore(scene, DagPoseBindPose(scene)[1]))
            /\ pc' = "ef_83"
            /\ UNCHANGED <<outcome, raisedAt>>
    /\ UNCHANGED efFrame

\* line 83
EF_duplicate ==
    /\ pc = "ef_83"
    /\ Issue("extract_faces", "duplicate", Duplicate(scene, ef.cur_mesh))
    /\ ef' = [ef EXCEPT !.new_mesh = DupName(ef.cur_mesh)]
    /\ pc' = "ef_86"
    /\ UNCHANGED <<efFrame, outcome, raisedAt>>

\* lines 86-87
EF_rename ==
    /\ pc = "ef_86"
    /\ IF ef.new_name # ""
       THEN /\ Issue("extract_faces", "rename",
                     Rename(scene, ef.new_mesh, <<ef.new_name>>))
            /\ ef' = [ef EXCEPT !.new_mesh = <<ef.new_name>>]
       ELSE NoHostCall /\ UNCHANGED ef
    /\ pc' = "ef_90"
    /\ UNCHANGED <<efFrame, outcome, raisedAt>>

\* lines 90-91: copy_proxy_to_skin(cur_mesh, new_mesh) is entered.
EF_copy_skinning ==
    /\ pc = "ef_90"
    /\ IF ef.copy_skinning
       THEN /\ cps' = [NoFrameCPS EXCEPT !.src_mesh = ef.cur_mesh,
                                         !.dst_mesh = ef.new_mesh]
            /\ caller' = "extract_faces"
            /\ pc' = "cps_125"
       ELSE pc' = "ef_93" /\ UNCHANGED <<cps, caller>>
    /\ NoHostCall
    /\ UNCHANGED <<openChunks, chunkBase, op, result, entry, ef, outcome, raisedAt>>

\* lines 93-94
DeletesOriginalFaces(keep_original) == ~keep_original

EF_delete_original ==
    /\ pc = "ef_93"
    /\ IF DeletesOriginalFaces(ef.keep_original)
       THEN IF CanDelete(scene, ef.selected_faces)
            THEN /\ Issue("extract_faces", "delete", Delete(scene, ef.selected_faces))
                 /\ pc' = "ef_97"
                 /\ UNCHANGED <<outcome, raisedAt>>
            ELSE Raise(94) /\ NoHostCall
       ELSE pc' = "ef_97" /\ NoHostCall /\ UNCHANGED <<outcome, raisedAt>>
    /\ UNCHANGED <<efFrame, ef>>

\* lines 97-98
SwapMesh(items, cur_mesh, new_mesh) ==
    [i \in 1..Len(items) |-> RenameItem(items[i], cur_mesh, new_mesh)]

EF_swap ==
    /\ pc = "ef_97"
    /\ ef' = [ef EXCEPT !.faces_to_extract = SwapMesh(@, ef.cur_mesh, ef.new_mesh)]
    /\ pc' = "ef_100"
    /\ NoHostCall
    /\ UNCHANGED <<efFrame, outcome, raisedAt>>

\* line 100
EF_delete_extract ==
    /\ pc = "ef_100"
    /\ IF CanDelete(scene, ef.faces_to_extract)
       THEN /\ Issue("extract_faces", "delete", Delete(scene, ef.faces_to_extract))
            /\ pc' = "ef_103"
            /\ UNCHANGED <<outcome, raisedAt>>
       ELSE Raise(100) /\ NoHostCall
    /\ UNCHANGED <<efFrame, ef>>

\* lines 103-107
EF_clean ==
    /\ pc = "ef_103"
    /\ IF ef.copy_skinning
       THEN IF {ef.cur_mesh, ef.new_mesh} \subseteq Meshes(scene)
            THEN /\ scene' = BakePartialHistory(
                                 BakePartialHistory(scene, ef.cur_mesh), ef.new_mesh)
                 /\ undoQueue' = undoQueue \o
                                   <<scene, BakePartialHistory(scene, ef.cur_mesh)>>
                 /\ log' = log \o
                      <<[fn |-> "extract_faces", cmd |-> "bakePartialHistory",
                         pose |-> scene.pose],
                        [fn |-> "extract_faces", cmd |-> "bakePartialHistory",
                         pose |-> scene.pose]>>
                 /\ pc' = "ef_109"
                 /\ UNCHANGED <<outcome, raisedAt>>
            ELSE Raise(104) /\ NoHostCall
       ELSE IF ef.new_mesh \in Meshes(scene)
            THEN /\ Issue("extract_faces", "delete_ch", DeleteHistory(scene, ef.new_mesh))
                 /\ pc' = "ef_109"
                 /\ UNCHANGED <<outcome, raisedAt>>
            ELSE Raise(107) /\ NoHostCall
    /\ UNCHANGED <<efFrame, ef>>

\* lines 109-110
EF_restore_pose ==
    /\ pc = "ef_109"
    /\ scene' = DeletePose(DagPoseRestore(scene, ef.cur_pose), ef.cur_pose)
    /\ undoQueue' = undoQueue \o <<scene, DagPoseRestore(scene, ef.cur_pose)>>
    /\ log' = log \o
         <<[fn |-> "extract_faces", cmd |-> "dagPose_restore", pose |-> scene.pose],
           [fn |-> "extract_faces", cmd |-> "delete_pose",
            pose |-> DagPoseRestore(scene, ef.cur_pose).pose]>>
    /\ pc' = "ef_111"
    /\ UNCHANGED <<efFrame, ef, outcome, raisedAt>>

\* lines 111-113
EF_select_return ==
    /\ pc = "ef_111"
    /\ Issue("extract_faces", "select_r", SelectReplace(scene, ef.new_mesh))
    /\ result' = ef.new_mesh
    /\ outcome' = "returned"
    /\ pc' = "undo_44"
    /\ UNCHANGED <<openChunks, chunkBase, op, cps, caller, entry, ef, raisedAt>>
----------------------------------------------------------------------------
\* copy_proxy_to_skin (lines 116-166)

cpsFrame == <<openChunks, chunkBase, op, result, ef, caller, entry>>

\* copy_proxy_to_skin(src_mesh, dst_mesh) is called by the artist, with meshes
\* selected or none (module docstring, lines 7-8); <<>> stands for None.
Call_copy_proxy_to_skin(src_mesh, dst_mesh) ==
    /\ pc = "idle"
    /\ \A i \in 1..Len(scene.selection) : ~IsFace(scene.selection[i])
    /\ pc' = "cps_125"
    /\ op' = "copy_proxy_to_skin"
    /\ outcome' = "running"
    /\ caller' = "top"
    /\ cps' = [NoFrameCPS EXCEPT !.arg_src = src_mesh, !.arg_dst = dst_mesh,
                                  !.src_mesh = src_mesh, !.dst_mesh = dst_mesh]
    /\ entry' = [scene |-> scene, openChunks |-> openChunks]
    /\ UNCHANGED <<scene, openChunks, chunkBase, undoQueue, raisedAt, result, ef, log>>

\* line 125
NeedsSelection(src_mesh, dst_mesh) == src_mesh = <<>> \/ dst_mesh = <<>>

\* A guard that lets more than two selected items through.
TwoSelected_AtLeast(meshes) == Len(meshes) >= 2

\* line 127
TwoSelected(meshes) == Len(meshes) = 2

\* lines 125-131
CPS_selection ==
    /\ pc = "cps_125"
    /\ IF NeedsSelection(cps.src_mesh, cps.dst_mesh)
       THEN IF TwoSelected(Ls_sl(scene))
            THEN /\ cps' = [cps EXCEPT !.src_mesh = Ls_sl(scene)[1][1],
                                       !.dst_mesh = Ls_sl(scene)[2][1]]
                 /\ pc' = "cps_134"
                 /\ UNCHANGED <<outcome, raisedAt>>
            ELSE Raise(131) /\ UNCHANGED cps
       ELSE pc' = "cps_134" /\ UNCHANGED <<cps, outcome, raisedAt>>
    /\ NoHostCall
    /\ UNCHANGED cpsFrame

\* A guard that never finds the source skin cluster missing.
NoSourceSkin_Never(src_skin) == FALSE

\* line 135
NoSourceSkin(src_skin) == src_skin = <<>>

\* lines 134-136
CPS_src_skin ==
    /\ pc = "cps_134"
    /\ IF NoSourceSkin(SkinClustersOf(scene, cps.src_mesh))
       THEN Raise(136) /\ UNCHANGED cps
       ELSE /\ cps' = [cps EXCEPT !.src_skin = SkinClustersOf(scene, cps.src_mesh)]
            /\ pc' = "cps_139"
            /\ UNCHANGED <<outcome, raisedAt>>
    /\ NoHostCall
    /\ UNCHANGED cpsFrame

\* line 139
CPS_dst_skin ==
    /\ pc = "cps_139"
    /\ cps' = [cps EXCEPT !.dst_skin = SkinClustersOf(scene, cps.dst_mesh),
                          !.dst_skin_on_entry = SkinClustersOf(scene, cps.dst_mesh)]
    /\ pc' = "cps_142"
    /\ NoHostCall
    /\ UNCHANGED <<cpsFrame, outcome, raisedAt>>

\* lines 142-143
CPS_save_pose ==
    /\ pc = "cps_142"
    /\ cps' = [cps EXCEPT !.influence_list = WeightedInfluences(scene, cps.src_skin[1]),
                          !.cur_pose = "skinToPose"]
    /\ Issue("copy_proxy_to_skin", "dagPose_save", DagPoseSave(scene, "skinToPose"))
    /\ pc' = "cps_146"
    /\ UNCHANGED <<cpsFrame, outcome, raisedAt>>

\* A bind pose that is never restored.
HasBindPose_Never(bind_pose) == FALSE

\* line 147
HasBindPose(bind_pose) == bind_pose # <<>>

\* lines 146-148
CPS_bind_pose ==
    /\ pc = "cps_146"
    /\ cps' = [cps EXCEPT !.bind_pose = DagPoseBindPose(scene)]
    /\ IF HasBindPose(DagPoseBindPose(scene))
       THEN Issue("copy_proxy_to_skin", "dagPose_restore_bind",
                  DagPoseRestore(scene, DagPoseBindPose(scene)[1]))
       ELSE NoHostCall
    /\ pc' = "cps_151"
    /\ UNCHANGED <<cpsFrame, outcome, raisedAt>>

\* line 152: dst_mesh.split(':')[-1]
DstPrefix(dst_mesh) == dst_mesh[Len(dst_mesh)]

\* lines 152 and 155: the name given to the new skin cluster
NewSkinName(dst_mesh) == <<DstPrefix(dst_mesh), "_skinCluster">>

\* A destination skin cluster that is built even when one exists.
BuildsDestinationSkin_Always(dst_skin) == TRUE

\* line 151
BuildsDestinationSkin(dst_skin) == dst_skin = <<>>

\* lines 151-155
CPS_build ==
    /\ pc = "cps_151"
    /\ IF BuildsDestinationSkin(cps.dst_skin)
       THEN /\ Issue("copy_proxy_to_skin", "skinCluster",
                     SkinClusterCreate(scene, Influences(scene, cps.src_skin[1]),
                                       cps.dst_mesh, NewSkinName(cps.dst_mesh)))
            /\ cps' = [cps EXCEPT !.dst_skin = <<NewSkinName(cps.dst_mesh)>>]
       ELSE NoHostCall /\ UNCHANGED cps
    /\ pc' = "cps_158"
    /\ UNCHANGED <<cpsFrame, outcome, raisedAt>>

\* lines 158-159
CPS_copy ==
    /\ pc = "cps_158"
    /\ Issue("copy_proxy_to_skin", "copySkinWeights",
             CopySkinWeights(scene, cps.src_skin[1], cps.dst_skin[1]))
    /\ pc' = "cps_161"
    /\ UNCHANGED <<cpsFrame, cps, outcome, raisedAt>>

\* lines 161-163
CPS_restore ==
    /\ pc = "cps_161"
    /\ LET s1 == DagPoseRestore(scene, cps.cur_pose)
           s2 == DeletePose(s1, cps.cur_pose)
       IN  /\ scene' = SelectClear(s2)
           /\ undoQueue' = undoQueue \o <<scene, s1, s2>>
           /\ log' = log \o
                <<[fn |-> "copy_proxy_to_skin", cmd |-> "dagPose_restore",
                   pose |-> scene.pose],
                  [fn |-> "copy_proxy_to_skin", cmd |-> "delete_pose", pose |-> s1.pose],
                  [fn |-> "copy_proxy_to_skin", cmd |-> "select_cl", pose |-> s2.pose]>>
    /\ pc' = "cps_166"
    /\ UNCHANGED <<cpsFrame, cps, outcome, raisedAt>>

\* line 166: back in extract_faces (line 93) or at the artist's call
CPS_return ==
    /\ pc = "cps_166"
    /\ cps' = [cps EXCEPT !.returned = TRUE]
    /\ IF caller = "extract_faces"
       THEN pc' = "ef_93" /\ UNCHANGED <<result, outcome>>
       ELSE pc' = "done" /\ result' = cps.dst_skin /\ outcome' = "returned"
    /\ NoHostCall
    /\ UNCHANGED <<openChunks, chunkBase, op, ef, caller, entry, raisedAt>>

----------------------------------------------------------------------------
\* The arguments of the calls.

FaceLists == FaceSelections \cup {<<>>, <<Obj(M)>>}
NewNames == {"", NewName}
MeshArgs == {<<>>, M, P, Q}

Next ==
    \/ \E fl \in FaceLists, nn \in NewNames, ko \in BOOLEAN, cs \in BOOLEAN :
          Call_extract_faces(fl, nn, ko, cs)
    \/ Undo_openChunk
    \/ EF_selected_faces
    \/ EF_filter
    \/ EF_cur_mesh
    \/ EF_toggle
    \/ EF_save_pose
    \/ EF_bind_pose
    \/ EF_duplicate
    \/ EF_rename
    \/ EF_copy_skinning
    \/ EF_delete_original
    \/ EF_swap
    \/ EF_delete_extract
    \/ EF_clean
    \/ EF_restore_pose
    \/ EF_select_return
    \/ Undo_closeChunk
    \/ Undo_undo
    \/ \E src \in MeshArgs, dst \in MeshArgs : Call_copy_proxy_to_skin(src, dst)
    \/ CPS_selection
    \/ CPS_src_skin
    \/ CPS_dst_skin
    \/ CPS_save_pose
    \/ CPS_bind_pose
    \/ CPS_build
    \/ CPS_copy
    \/ CPS_restore
    \/ CPS_return

Spec == Init /\ [][Next]_vars
----------------------------------------------------------------------------
\* Vocabulary of the properties.

EFBody == {"ef_61", "ef_66", "ef_69", "ef_72", "ef_76", "ef_80", "ef_83", "ef_86",
           "ef_90", "ef_93", "ef_97", "ef_100", "ef_103", "ef_109", "ef_111"}
CPSBody == {"cps_125", "cps_134", "cps_139", "cps_142", "cps_146", "cps_151",
            "cps_158", "cps_161", "cps_166"}

\* The faces extract_faces is asked to work on: face_list, or the selection
\* at the call when face_list is omitted.
AskedItems == IF ef.face_list # <<>> THEN ef.face_list ELSE entry.scene.selection

\* They are a non-empty set of faces of one skinned mesh.
AskedOneSkinnedMesh ==
    /\ op = "extract_faces"
    /\ AskedItems # <<>>
    /\ \A i \in 1..Len(AskedItems) :
          /\ IsFace(AskedItems[i])
          /\ AskedItems[i][1] = AskedItems[1][1]
          /\ Exists(entry.scene, AskedItems[i])
    /\ entry.scene.skinOf[AskedItems[1][1]] # <<>>
AskedMesh == AskedItems[1][1]
AskedFaces == FacesOf(AskedItems, AskedMesh)

\* The scene-changing calls copy_proxy_to_skin has issued, in order.
CpsCmds ==
    LET l == SelectSeq(log, LAMBDA e : e.fn = "copy_proxy_to_skin")
    IN  [i \in 1..Len(l) |-> l[i].cmd]
Issued(c) == \E i \in 1..Len(CpsCmds) : CpsCmds[i] = c
Pos(c) == CHOOSE i \in 1..Len(CpsCmds) : CpsCmds[i] = c
BindPoseExists == DagPoseBindPose(entry.scene) # <<>>

----------------------------------------------------------------------------
\* C1: every call of extract_faces and of copy_proxy_to_skin runs inside one
\* undo chunk: a chunk is open while the body of the operation runs, and
\* after the call as many chunks are open as before it.
C1_RunsInsideOneUndoChunk ==
    /\ pc \in EFBody \cup CPSBody => openChunks = entry.openChunks + 1
    /\ pc = "done" => openChunks = entry.openChunks

\* C2: asked for a non-empty set F of faces of one skinned mesh, by face_list
\* or by the selection, extract_faces returns a mesh whose faces are exactly F.
C2_ReturnsExactlyAskedFaces ==
    (AskedOneSkinnedMesh /\ pc = "undo_44" /\ outcome = "returned")
        => /\ result \in Meshes(scene)
           /\ scene.faces[result] = AskedFaces

\* C3: when extract_faces raises for want of a polygon face, the scene after
\* the call is the scene at the call.
C3_RaiseLeavesSceneAlone ==
    (op = "extract_faces" /\ pc = "done" /\ raisedAt = 67) => scene = entry.scene

\* C4: copy_proxy_to_skin called without both meshes raises at line 131, with
\* the scene and the selection untouched and no scene-changing call issued,
\* unless exactly two items are selected; then the first is the source and
\* the second the destination.
C4_SelectionGuard ==
    (op = "copy_proxy_to_skin" /\ pc # "cps_125"
        /\ (cps.arg_src = <<>> \/ cps.arg_dst = <<>>))
        => IF Len(entry.scene.selection) = 2
           THEN /\ cps.src_mesh = entry.scene.selection[1][1]
                /\ cps.dst_mesh = entry.scene.selection[2][1]
                /\ raisedAt # 131
           ELSE /\ pc = "done" /\ outcome = "raised" /\ raisedAt = 131
                /\ scene = entry.scene
                /\ log = <<>>

C4_Witness ==
    /\ op = "copy_proxy_to_skin" /\ pc = "done" /\ raisedAt = 131
    /\ cps.arg_src = M /\ cps.arg_dst = <<>>
    /\ Len(entry.scene.selection) = 3

\* C5: when the source mesh has no skin cluster, copy_proxy_to_skin raises at
\* line 136 with the scene untouched: no pose node, no pose change, no skin
\* cluster created, no weights copied, no scene-changing call issued.
C5_NoSourceSkinRaisesFirst ==
    (op = "copy_proxy_to_skin" /\ pc \notin {"cps_125", "cps_134"} /\ raisedAt # 131
        /\ SkinClustersOf(entry.scene, cps.src_mesh) = <<>>)
        => /\ pc = "done" /\ outcome = "raised" /\ raisedAt = 136
           /\ scene = entry.scene
           /\ log = <<>>

C5_Witness ==
    /\ op = "copy_proxy_to_skin" /\ pc = "done" /\ raisedAt = 136
    /\ cps.src_mesh = Q /\ cps.dst_mesh = P

\* C6: after a successful extract_faces on faces F of mesh M, M has the faces
\* it had at the call when keep_original is True, and those faces minus
\* exactly F when keep_original is False.
C6_OriginalFacesAfterCall ==
    (AskedOneSkinnedMesh /\ pc = "done" /\ outcome = "returned")
        => /\ AskedMesh \in Meshes(scene)
           /\ scene.faces[AskedMesh] =
                 IF ef.keep_original THEN entry.scene.faces[AskedMesh]
                 ELSE entry.scene.faces[AskedMesh] \ AskedFaces

\* C7: copy_proxy_to_skin creates a skin cluster on the destination exactly
\* when it has none at the call, bound to the influences of the source's skin
\* cluster and named <destination without namespace>_skinCluster; otherwise
\* the destination's skin cluster is reused; the destination skin cluster
\* holds the source's weights and is what the call returns.
C7_DestinationSkinCluster ==
    (cps.returned /\ (pc = "ef_93" \/ (pc = "done" /\ op = "copy_proxy_to_skin")))
        => LET onEntry == cps.dst_skin_on_entry
               ret == cps.dst_skin
               src == cps.src_skin[1]
           IN  /\ caller = "top" =>
                     /\ onEntry = SkinClustersOf(entry.scene, cps.dst_mesh)
                     /\ result = ret
               /\ Len(ret) = 1
               /\ ret[1] \in DOMAIN scene.skins
               /\ SkinClustersOf(scene, cps.dst_mesh)[1] = ret[1]
               /\ IF onEntry = <<>>
                  THEN /\ ret[1] = <<cps.dst_mesh[Len(cps.dst_mesh)], "_skinCluster">>
                       /\ ret[1] \notin DOMAIN entry.scene.skins
                       /\ DOMAIN scene.skins = DOMAIN entry.scene.skins \cup {ret[1]}
                       /\ scene.skins[ret[1]].inf = entry.scene.skins[src].inf
                  ELSE /\ ret = onEntry
                       /\ DOMAIN scene.skins = DOMAIN entry.scene.skins
               /\ scene.skins[ret[1]].w.from = entry.scene.skins[src].w.from
               /\ scene.skins[ret[1]].wi = entry.scene.skins[src].wi

C7_Witness ==
    /\ op = "copy_proxy_to_skin" /\ pc = "done" /\ cps.returned
    /\ cps.src_mesh = M /\ cps.dst_mesh = P
    /\ cps.dst_skin_on_entry = <<>>
    /\ result = <<<<"hires", "_skinCluster">>>>

\* C8 as stated: whenever copySkinWeights is about to be issued the skeleton
\* has been put into the bind pose and is in it.
C8_AlwaysInBindPoseAtCopy ==
    pc = "cps_158" => Issued("dagPose_restore_bind") /\ scene.pose = "bind"

\* C8, amended: in every run of copy_proxy_to_skin that reaches the weight
\* copy the pose is saved, then the skeleton is put into the bind pose when
\* the influences have one, then the weights are copied, then the saved pose
\* is restored; when a bind pose exists the skeleton is in it at the moment
\* copySkinWeights is issued.
C8_OrderAroundWeightCopy ==
    /\ pc = "cps_158" =>
          /\ Issued("dagPose_save") /\ ~Issued("dagPose_restore")
          /\ BindPoseExists =>
                /\ Issued("dagPose_restore_bind")
                /\ Pos("dagPose_save") < Pos("dagPose_restore_bind")
                /\ scene.pose = "bind"
    /\ Issued("copySkinWeights") =>
          /\ Issued("dagPose_save") /\ Pos("dagPose_save") < Pos("copySkinWeights")
          /\ Issued("dagPose_restore_bind") = BindPoseExists
          /\ Issued("dagPose_restore_bind") =>
                Pos("dagPose_restore_bind") < Pos("copySkinWeights")
          /\ Issued("dagPose_restore") =>
                Pos("copySkinWeights") < Pos("dagPose_restore")
          /\ \A i \in 1..Len(log) :
                (log[i].cmd = "copySkinWeights" /\ BindPoseExists)
                    => log[i].pose = "bind"
    /\ cps.returned => Issued("copySkinWeights") /\ Issued("dagPose_restore")

C8_Witness ==
    /\ pc = "cps_158" /\ caller = "top"
    /\ BindPoseExists /\ entry.scene.pose = "posed" /\ scene.pose = "bind"

\* C9: after a successful return of extract_faces the returned mesh exists,
\* holds the faces extracted and is the only selected object.
C9_EffectsPersist ==
    (op = "extract_faces" /\ pc = "done" /\ outcome = "returned")
        => /\ result \in Meshes(scene)
           /\ scene.faces[result] = FacesOf(entry.scene.selection, ef.cur_mesh)
           /\ scene.selection = <<Obj(result)>>

\* C10: after a normal return of copy_proxy_to_skin or of extract_faces, also
\* of the copy_proxy_to_skin that extract_faces calls, the skeleton is in the
\* pose it had when that call was entered, and no pose node skinToPose or
\* extractInPose is left.
C10_PoseRestoredAndPoseNodesDeleted ==
    /\ (pc \in {"undo_44", "undo_45", "done"} /\ outcome = "returned") =>
          /\ scene.pose = entry.scene.pose
          /\ DOMAIN scene.poseNodes = DOMAIN entry.scene.poseNodes
          /\ {"skinToPose", "extractInPose"} \cap DOMAIN scene.poseNodes = {}
    /\ (pc = "ef_93" /\ cps.returned) =>
          /\ scene.pose = "bind"
          /\ "skinToPose" \notin DOMAIN scene.poseNodes

C10_Witness ==
    /\ op = "extract_faces" /\ pc = "done" /\ outcome = "returned"
    /\ ef.copy_skinning /\ cps.returned
    /\ entry.scene.pose = "posed" /\ scene.pose = "posed"

====
